---- MODULE Spec2Model ----
(***************************************************************************)
(* Model of the Piper TTS engine (plugins/piper-tts/ios/cpp):              *)
(*   piper_engine.cpp   synthesize, phonemize_espeak, phonemes_to_ids,     *)
(*                      parse_phoneme_id_map, the process-wide session     *)
(*                      cache (g_session_mutex, g_cached_session,          *)
(*                      g_cached_model_path)                               *)
(*   ort_capi_adapter.cpp  createSession, destroySession, runInference     *)
(* Each host thread runs synthesize calls one after the other; the calls   *)
(* of different threads interleave at the granularity of the steps below.  *)
(*                                                                         *)
(* Conventions.  Strings of bytes (phoneme strings, map keys) are tuples   *)
(* of byte values.  Floats are fixed-point numbers in thousandths          *)
(* (0.667f is 667).  Pointers are small positive integers, NULL is 0.      *)
(***************************************************************************)
EXTENDS Integers, Sequences, FiniteSets, TLC

\* ------------------------------------------------------------------ bounds
\* Number of distinct heap addresses a PiperOrtSession (and, separately, a
\* native OrtSession) can be allocated at.
NumAddrs == 2

\* The host threads that call synthesize concurrently; each makes any number of
\* calls, one after the other.
Threads == {1, 2}
Addrs == 1..NumAddrs
NULL == 0

\* ------------------------------------------------------- program constants
\* piper_engine.cpp:22  kMaxWavValue = 32767.0f
kMaxWavValue == 32767
\* piper_engine.cpp:161/183  default sample rate
kDefaultSampleRate == 22050
\* piper_engine.cpp:188  defaults, in thousandths
kDefaultNoiseScale == 667
kDefaultLengthScale == 1000
kDefaultNoiseW == 800
\* piper_engine.cpp:201  default_id when the map has no " " entry
kDefaultId == 3
\* piper_engine.cpp:257  max_val floor 0.01f, in thousandths
kMaxValFloor == 10

\* piper_engine.h:14-25  enum class SynthesizeError
SynthesizeError ==
  { "kNone", "kInvalidArgs", "kConfigOpenFailed", "kConfigParseFailed",
    "kEspeakNotLinked", "kEspeakInitFailed", "kEspeakSetVoiceFailed",
    "kPhonemeIdsEmpty", "kOrtCreateSessionFailed", "kOrtRunInferenceFailed" }

\* ------------------------------------------------------------ JSON values
\* nlohmann::json values, tagged by value_t.  Each kind keeps its payload in
\* a field of its own.
JInt(n)   == [type |-> "number_integer", n |-> n]
JFloat(m) == [type |-> "number_float", m |-> m]
JBool(b)  == [type |-> "boolean", b |-> b]
JStr(s)   == [type |-> "string", s |-> s]
JArr(a)   == [type |-> "array", a |-> a]
JObj(o)   == [type |-> "object", o |-> o]
JNull     == [type |-> "null"]
\* A key the enclosing object does not contain (contains() is false).
JAbsent   == [type |-> "absent"]

\* basic_json::get<int>() / get<float>(): from_json for an arithmetic type
\* accepts number_integer, number_unsigned, number_float and boolean and
\* throws type_error.302 for every other value_t.
GetArithThrows(v) == v.type \notin {"number_integer", "number_float", "boolean"}
\* get<int>(): a float is converted by static_cast<int> (truncation toward zero
\* of the thousandths value), a boolean gives 0/1.
GetInt(v) ==
  CASE v.type = "number_integer" -> v.n
    [] v.type = "number_float" -> IF v.m >= 0 THEN v.m \div 1000 ELSE -((-v.m) \div 1000)
    [] v.type = "boolean" -> IF v.b THEN 1 ELSE 0
    [] OTHER -> 0
\* get<float>(), in thousandths.
GetFloat(v) ==
  CASE v.type = "number_integer" -> v.n * 1000
    [] v.type = "number_float" -> v.m
    [] v.type = "boolean" -> IF v.b THEN 1000 ELSE 0
    [] OTHER -> 0
\* get<std::string>() throws type_error.302 unless the value is a string.
GetStringThrows(v) == v.type # "string"

\* ------------------------------------------------------- phoneme strings
\* Byte strings used as phoneme map keys.
kPad   == <<95>>
kBos   == <<94>>
kEos   == <<36>>
kSpace == <<32>>
symA   == <<97>>
symB   == <<98>>
\* U+0259 (schwa), two bytes in UTF-8.
symSchwa == <<201, 153>>

\* piper_engine.cpp:34-42.  c is the byte at p; 0 is the terminating NUL.
utf8_codepoint_len(c) ==
  IF c = 0 THEN 0
  ELSE IF c < 128 THEN 1
  ELSE IF c < 224 THEN 2
  ELSE IF c < 240 THEN 3
  ELSE IF c < 248 THEN 4
  ELSE 1

\* ------------------------------------------------------- phoneme encoder
\* A phoneme id map (std::map<std::string, std::vector<int64_t>>) is a
\* function from byte strings to non-empty id sequences.
EmptyIdMap == [k \in {} |-> <<>>]

\* piper_engine.cpp:52-55: the integer elements of a JSON array, in order.
RECURSIVE IntegerElements(_)
IntegerElements(a) ==
  IF a = <<>> THEN <<>>
  ELSE (IF Head(a).type = "number_integer" THEN <<Head(a).n>> ELSE <<>>)
         \o IntegerElements(Tail(a))

\* piper_engine.cpp:45-59.  pim is config["phoneme_id_map"] (JAbsent when the
\* document has no such key).
parse_phoneme_id_map(pim) ==
  IF pim.type # "object" THEN EmptyIdMap
  ELSE LET kept == { k \in DOMAIN pim.o :
                       /\ pim.o[k].type = "array"
                       /\ IntegerElements(pim.o[k].a) # <<>> }
       IN [k \in kept |-> IntegerElements(pim.o[k].a)]

PadIds_zero(id_map) == IF kPad \in DOMAIN id_map THEN id_map[kPad] ELSE <<0>>
\* piper_engine.cpp:67-68, 72, 86: the PAD ids, or nothing without a "_" entry.
PadIds(id_map) == IF kPad \in DOMAIN id_map THEN id_map[kPad] ELSE <<>>

HeaderIds_padAlways(id_map) ==
  (IF kBos \in DOMAIN id_map THEN id_map[kBos] ELSE <<>>) \o PadIds(id_map)
HeaderIds_noPad(id_map) ==
  IF kBos \in DOMAIN id_map THEN id_map[kBos] ELSE <<>>
\* piper_engine.cpp:69-73: the header.
HeaderIds(id_map) ==
  IF kBos \in DOMAIN id_map THEN id_map[kBos] \o PadIds(id_map) ELSE <<>>

\* piper_engine.cpp:75-88: the loop over the code points of the string p.
\* p holds no NUL byte and is well-formed UTF-8 (what espeak-ng returns), so
\* every code point's bytes lie inside the string.
RECURSIVE SymbolIds(_, _, _)
SymbolIds(p, id_map, default_id) ==
  IF p = <<>> THEN <<>>
  ELSE LET len == utf8_codepoint_len(Head(p))
           key == SubSeq(p, 1, len)
           own == IF key \in DOMAIN id_map THEN id_map[key] ELSE <<default_id>>
       IN own \o PadIds(id_map)
              \o SymbolIds(SubSeq(p, len + 1, Len(p)), id_map, default_id)

\* piper_engine.cpp:90-93: the trailer.
TrailerIds(id_map) == IF kEos \in DOMAIN id_map THEN id_map[kEos] ELSE <<>>

\* piper_engine.cpp:62-95.
phonemes_to_ids(phonemes, id_map, default_id) ==
  HeaderIds(id_map) \o SymbolIds(phonemes, id_map, default_id) \o TrailerIds(id_map)

DefaultId_const(id_map) == kDefaultId
\* piper_engine.cpp:201-204.
DefaultId(id_map) ==
  IF kSpace \in DOMAIN id_map /\ id_map[kSpace] # <<>> THEN id_map[kSpace][1]
  ELSE kDefaultId

\* ------------------------------------------------- configuration documents
\* A parsed configuration document, flattened: each field is the JSON value
\* found at its place, or JAbsent when contains() is false on the way to it
\* (the key is missing, or its parent is missing or not an object).
DocEmpty ==
  [ sample_rate |-> JAbsent, noise_scale |-> JAbsent, length_scale |-> JAbsent,
    noise_w |-> JAbsent, voice |-> JAbsent, phoneme_id_map |-> JAbsent,
    num_speakers |-> JAbsent ]

FullMapJson ==
  JObj( kBos :> JArr(<<JInt(1)>>) @@ kPad :> JArr(<<JInt(0)>>)
        @@ kEos :> JArr(<<JInt(2)>>) @@ kSpace :> JArr(<<JInt(7)>>)
        @@ symA :> JArr(<<JInt(14)>>) @@ symSchwa :> JArr(<<JInt(59), JInt(60)>>) )

DocFull ==
  [ sample_rate |-> JInt(16000), noise_scale |-> JFloat(333),
    length_scale |-> JInt(2), noise_w |-> JFloat(500), voice |-> JStr("de"),
    phoneme_id_map |-> FullMapJson, num_speakers |-> JInt(2) ]

\* The file system: what opening and parsing the file at a path gives.
\*   exists: std::ifstream opens; valid: json::parse does not throw.
NoFile == [exists |-> FALSE, valid |-> FALSE, doc |-> DocEmpty]
Garbage == [exists |-> TRUE, valid |-> FALSE, doc |-> DocEmpty]
File(doc) == [exists |-> TRUE, valid |-> TRUE, doc |-> doc]

ConfigFile(path) ==
  CASE path = "full.json" -> File(DocFull)
    [] path = "empty.json" -> File(DocEmpty)
    [] path = "garbage.json" -> Garbage
    [] path = "bad_rate.json" -> File([DocFull EXCEPT !.sample_rate = JStr("22050")])
    [] path = "bad_noise.json" -> File([DocEmpty EXCEPT !.noise_w = JNull])
    [] path = "bad_voice.json" -> File([DocEmpty EXCEPT !.voice = JInt(1)])
    [] path = "bad_map.json" -> File([DocFull EXCEPT !.phoneme_id_map = JArr(<<JInt(1)>>)])
    [] path = "bad_entry.json" ->
         File([DocFull EXCEPT !.phoneme_id_map =
                 JObj( kBos :> JStr("1") @@ kEos :> JArr(<<JStr("2")>>)
                       @@ symA :> JArr(<<JInt(14)>>) )])
    [] path = "no_voice.json" -> File([DocEmpty EXCEPT !.voice = JStr("xx")])
    [] path = "bad_speakers.json" -> File([DocFull EXCEPT !.num_speakers = JStr("2")])
    [] OTHER -> NoFile

\* The fields read with get<int>() / get<float>() / get<std::string>().
IntFields == {"sample_rate", "num_speakers"}
FloatFields == {"noise_scale", "length_scale", "noise_w"}
StringFields == {"voice"}

\* piper_engine.cpp:184-198: whether resolving the fields read before
\* phonemization throws (an nlohmann type_error, outside the try block).
ConfigReadThrows(doc) ==
  \/ doc.sample_rate.type # "absent" /\ GetArithThrows(doc.sample_rate)
  \/ \E f \in FloatFields : doc[f].type # "absent" /\ GetArithThrows(doc[f])
  \/ doc.voice.type # "absent" /\ GetStringThrows(doc.voice)

\* piper_engine.cpp:225: config["num_speakers"].get<int>() throws.
SpeakersReadThrows(doc) ==
  doc.num_speakers.type # "absent" /\ GetArithThrows(doc.num_speakers)

\* piper_engine.cpp:183-185.
CfgSampleRate(doc) ==
  IF doc.sample_rate.type # "absent" THEN GetInt(doc.sample_rate)
  ELSE kDefaultSampleRate
\* piper_engine.cpp:188-194: [noise_scale, length_scale, noise_w].
CfgScales(doc) ==
  << IF doc.noise_scale.type # "absent" THEN GetFloat(doc.noise_scale) ELSE kDefaultNoiseScale,
     IF doc.length_scale.type # "absent" THEN GetFloat(doc.length_scale) ELSE kDefaultLengthScale,
     IF doc.noise_w.type # "absent" THEN GetFloat(doc.noise_w) ELSE kDefaultNoiseW >>
\* piper_engine.cpp:196-198.
CfgVoice(doc) == IF doc.voice.type # "absent" THEN doc.voice.s ELSE "en-us"
\* piper_engine.cpp:200.
CfgIdMap(doc) == parse_phoneme_id_map(doc.phoneme_id_map)

\* ------------------------------------------------------- external engines
\* espeak_SetVoiceByName: 0 (EE_OK) for a voice the data directory has.
EspeakVoiceKnown(voice) == voice \in {"en-us", "de"}
\* espeak_TextToPhonemesWithTerminator over the whole text (lines 124-138):
\* the IPA string of the text.  Punctuation alone gives no phonemes.
EspeakPhonemes(text) ==
  CASE text = "ab" -> symA \o symSchwa
    [] text = "a c" -> symA \o kSpace \o symB
    [] OTHER -> <<>>
\* Whether the ONNX model at a path declares an input named "sid".
ModelHasSid(model_path) == model_path = "B.onnx"
\* The float buffers a model's output tensor can hold (thousandths), total > 0.
AudioOutputs == { <<500, -1000, 250>> }

\* ------------------------------------------------------------------ inputs
\* The arguments the host passes to synthesize, and what the caller's pcm
\* vector holds when it is passed in.
In(m, c, e, x, p) ==
  [ model_path |-> m, config_path |-> c, espeak_data_path |-> e, text |-> x,
    pcm_in |-> p ]
Inputs ==
  { \* calls that can get through the whole pipeline
    In("A.onnx", "full.json", "espeak-ng-data", "ab", <<7, 7>>),
    In("B.onnx", "empty.json", "", "a c", <<>>),
    \* empty arguments
    In("", "full.json", "espeak-ng-data", "ab", <<7, 7>>),
    In("A.onnx", "", "espeak-ng-data", "ab", <<>>),
    In("A.onnx", "full.json", "espeak-ng-data", "", <<7, 7>>),
    In("", "", "", "", <<>>),
    \* configuration files that cannot be opened or parsed
    In("A.onnx", "missing.json", "espeak-ng-data", "ab", <<7, 7>>),
    In("A.onnx", "garbage.json", "espeak-ng-data", "ab", <<>>),
    \* known fields of an unexpected type
    In("A.onnx", "bad_rate.json", "espeak-ng-data", "ab", <<>>),
    In("A.onnx", "bad_noise.json", "espeak-ng-data", "ab", <<>>),
    In("A.onnx", "bad_voice.json", "espeak-ng-data", "ab", <<7, 7>>),
    In("A.onnx", "bad_speakers.json", "espeak-ng-data", "ab", <<>>),
    In("B.onnx", "bad_map.json", "espeak-ng-data", "?", <<>>),
    In("B.onnx", "bad_entry.json", "espeak-ng-data", "?", <<>>),
    \* a voice espeak-ng does not have, a text without phonemes
    In("A.onnx", "no_voice.json", "espeak-ng-data", "ab", <<>>),
    In("A.onnx", "empty.json", "espeak-ng-data", "?", <<7, 7>>) }

\* -------------------------------------------------------------------- state
VARIABLES
  \* piper_engine.cpp:25-30, the process-wide state
  g_session_mutex,       \* 0 when free, else the thread holding the lock
  g_cached_session,      \* PiperOrtSession* (an address, or NULL)
  g_cached_model_path,
  g_cached_espeak_path,
  g_espeak_initialized,
  \* ort_capi_adapter.cpp:228-229, the function-local statics of runInference
  s_last_logged_session, \* OrtSession* (an address, or NULL)
  s_session_has_sid,
  \* the heap: the PiperOrtSession object living at each address
  heap,
  \* the build: whether PIPER_ENGINE_USE_ESPEAK is defined
  useEspeak,
  \* per thread: position in synthesize, arguments, locals, results
  pc, args, loc, out,
  \* per thread: what the current call has done so far (history)
  hist,
  \* whether undefined behaviour has crashed the process
  crashed,
  \* the component-level runs: one run of the encoder on a drawn input,
  \* one run of createSession / runInference against a drawn native library,
  \* one resolution of the synthesis parameters of a call, one conversion
  \* of float samples to 16-bit PCM
  enc, ri, ovr, pp

globals ==
  << g_session_mutex, g_cached_session, g_cached_model_path, g_cached_espeak_path,
     g_espeak_initialized, s_last_logged_session, s_session_has_sid, heap >>
vars ==
  << g_session_mutex, g_cached_session, g_cached_model_path, g_cached_espeak_path,
     g_espeak_initialized, s_last_logged_session, s_session_has_sid, heap,
     useEspeak, pc, args, loc, out, hist, crashed, enc, ri, ovr, pp >>
\* The component-level runs do not take part in the calls of synthesize.
aux == << enc, ri, ovr, pp >>

\* A PiperOrtSession object (ort_capi_adapter.cpp:69-74): the model it was
\* loaded from and the address of its native OrtSession.  An address that
\* holds no live object is a FreeCell.
FreeCell == [path |-> "", ort |-> NULL]
Live == { a \in Addrs : heap[a] # FreeCell }

NoArgs == In("", "", "", "", <<>>)
\* stale: the object the call's session pointer pointed to has been deleted.
NoLoc ==
  [ phonemes |-> <<>>, phoneme_ids |-> <<>>, session |-> NULL, stale |-> FALSE,
    audio_float |-> <<>> ]
NoOut ==
  [ pcm_out |-> <<>>, sample_rate_out |-> 0, out_error |-> "kNone", ret |-> "none" ]
\* stages: the steps of the pipeline the call has entered, in order;
\* ops: the createSession / destroySession calls it has made, in order;
\* entry_path, entry_session: the cache as the call found it when it took the
\*   lock.
NoHist ==
  [ stages |-> <<>>, ops |-> <<>>, entry_path |-> "", entry_session |-> NULL ]

\* The component-level runs when they are not started.
NoEnc == [pc |-> "off", syms |-> <<>>, pim |-> JAbsent, ids |-> <<>>,
          error |-> "kNone"]
NoRi ==
  [ pc |-> "off", session |-> FALSE, shape |-> <<>>, live |-> {}, over |-> {},
    st_live |-> {}, st_over |-> {}, failed |-> {}, nulls |-> {}, out |-> <<>>,
    result |-> "none", error |-> "kNone" ]
NoPp == [pc |-> "off", audio_float |-> <<>>, pcm_out |-> <<>>]
NoOvr ==
  [ pc |-> "off", doc |-> DocEmpty, overrides |-> <<-1000, -1000, -1000, -1000>>,
    scales |-> <<0, 0, 0>>, gain_db |-> 0 ]

Init ==
  /\ g_session_mutex = 0
  /\ g_cached_session = NULL
  /\ g_cached_model_path = ""
  /\ g_cached_espeak_path = ""
  /\ g_espeak_initialized = FALSE
  /\ s_last_logged_session = NULL
  /\ s_session_has_sid = FALSE
  /\ heap = [a \in Addrs |-> FreeCell]
  /\ useEspeak \in BOOLEAN
  /\ enc = NoEnc
  /\ ri = NoRi
  /\ ovr = NoOvr
  /\ pp = NoPp
  /\ pc = [t \in Threads |-> "idle"]
  /\ args = [t \in Threads |-> NoArgs]
  /\ loc = [t \in Threads |-> NoLoc]
  /\ out = [t \in Threads |-> NoOut]
  /\ hist = [t \in Threads |-> NoHist]
  /\ crashed = FALSE

\* ---------------------------------------------------------------- helpers
Stage(t, name) == [hist EXCEPT ![t].stages = Append(@, name)]

\* set_err(e); return false;
Fail(t, e) ==
  /\ out' = [out EXCEPT ![t].out_error = e, ![t].ret = "false"]
  /\ pc' = [pc EXCEPT ![t] = "done"]

\* An exception leaves synthesize.
Throw(t) ==
  /\ out' = [out EXCEPT ![t].ret = "threw"]
  /\ pc' = [pc EXCEPT ![t] = "done"]

\* The configuration document of thread t's call.
Config(t) == ConfigFile(args[t].config_path).doc

\* ------------------------------------------------------------- synthesize
\* Mutant of ArgsInvalid: the text is not validated.
ArgsInvalid_noText(a) == a.model_path = "" \/ a.config_path = ""

\* piper_engine.cpp:164
ArgsInvalid(a) == a.model_path = "" \/ a.config_path = "" \/ a.text = ""

\* Mutant of ClearPcm: the output vector is not cleared on entry.
ClearPcm_kept(pcm) == pcm

\* piper_engine.cpp:160: pcm_out.clear()
ClearPcm(pcm) == <<>>

\* piper_engine.cpp:169-204: open, parse, resolve the fields.  A get<>() on a
\* value of the wrong type throws outside the try block: the exception
\* leaves synthesize (sample_rate_out is written first when its own field
\* reads well).  Gives the call's results so far and where it goes next.
LoadConfig(a, o) ==
  LET f == ConfigFile(a.config_path) IN
    IF ~f.exists
      THEN [ out |-> [o EXCEPT !.out_error = "kConfigOpenFailed", !.ret = "false"],
             pc |-> "done" ]
    ELSE IF ~f.valid
      THEN [ out |-> [o EXCEPT !.out_error = "kConfigParseFailed", !.ret = "false"],
             pc |-> "done" ]
    ELSE IF ConfigReadThrows(f.doc)
      THEN [ out |-> [o EXCEPT
                       !.ret = "threw",
                       !.sample_rate_out =
                          IF f.doc.sample_rate.type # "absent"
                               /\ GetArithThrows(f.doc.sample_rate)
                            THEN @ ELSE CfgSampleRate(f.doc)],
             pc |-> "done" ]
    ELSE [ out |-> [o EXCEPT !.sample_rate_out = CfgSampleRate(f.doc)],
           pc |-> "phonemize" ]

\* The host calls synthesize(model_path, config_path, espeak_data_path, text,
\* pcm_out, sample_rate_out, &out_error) as piper_jni.cpp:45-48 does, with
\* out_error initialised to kNone; piper_engine.cpp:160-204 run (they touch
\* nothing but the call's own arguments and locals).
Call(t) ==
  /\ ~crashed
  /\ pc[t] = "idle"
  /\ \E a \in Inputs :
       LET entered == [ pcm_out |-> ClearPcm(a.pcm_in),
                        sample_rate_out |-> kDefaultSampleRate,
                        out_error |-> "kNone", ret |-> "none" ]
       IN /\ args' = [args EXCEPT ![t] = a]
          /\ IF ArgsInvalid(a)
               THEN /\ out' = [out EXCEPT ![t] =
                         [entered EXCEPT !.out_error = "kInvalidArgs", !.ret = "false"]]
                    /\ pc' = [pc EXCEPT ![t] = "done"]
                    /\ hist' = [hist EXCEPT ![t] = NoHist]
               ELSE /\ out' = [out EXCEPT ![t] = LoadConfig(a, entered).out]
                    /\ pc' = [pc EXCEPT ![t] = LoadConfig(a, entered).pc]
                    /\ hist' = [hist EXCEPT ![t] =
                         [NoHist EXCEPT !.stages = <<"ConfigLoading">>]]
  /\ loc' = [loc EXCEPT ![t] = NoLoc]
  /\ UNCHANGED << globals, useEspeak, aux, crashed >>

hasEspeak_always == TRUE
\* piper_engine.cpp:145-151, 207-215: hasEspeak() and the phonemizing branch of
\* synthesize are compiled from the same macro PIPER_ENGINE_USE_ESPEAK.
hasEspeak == useEspeak

IdsEmpty_never(ids) == FALSE
\* piper_engine.cpp:219: phoneme_ids.empty()
IdsEmpty(ids) == ids = <<>>

\* piper_engine.cpp:206-216 and phonemize_espeak line 106.  Without
\* PIPER_ENGINE_USE_ESPEAK the call ends here; with it phonemize_espeak
\* starts by reading g_espeak_initialized (no lock is held).
Phonemize(t) ==
  /\ ~crashed
  /\ pc[t] = "phonemize"
  /\ hist' = Stage(t, "Phonemizing")
  /\ IF ~hasEspeak THEN Fail(t, "kEspeakNotLinked")
     ELSE /\ pc' = [pc EXCEPT ![t] =
                 IF g_espeak_initialized THEN "espeak_voice" ELSE "espeak_init"]
          /\ UNCHANGED out
  /\ UNCHANGED << globals, useEspeak, aux, args, loc, crashed >>

\* piper_engine.cpp:107-118: espeak_Initialize returns the sample rate, or a
\* negative number on failure.
EspeakInit(t) ==
  /\ ~crashed
  /\ pc[t] = "espeak_init"
  /\ \E r \in {-1, 22050} :
       IF r < 0
         THEN /\ Fail(t, "kEspeakInitFailed")
              /\ UNCHANGED << g_espeak_initialized, g_cached_espeak_path >>
         ELSE /\ g_espeak_initialized' = TRUE
              /\ g_cached_espeak_path' = args[t].espeak_data_path
              /\ pc' = [pc EXCEPT ![t] = "espeak_voice"]
              /\ UNCHANGED out
  /\ UNCHANGED << g_session_mutex, g_cached_session, g_cached_model_path,
                  s_last_logged_session, s_session_has_sid, heap,
                  useEspeak, aux, args, loc, hist, crashed >>

\* piper_engine.cpp:119-139, 218-226: set the voice, phonemize the whole
\* text, encode; then num_speakers is read with get<int>(), which throws on a
\* value of the wrong type.
EspeakVoice(t) ==
  /\ ~crashed
  /\ pc[t] = "espeak_voice"
  /\ IF ~EspeakVoiceKnown(CfgVoice(Config(t)))
       THEN /\ Fail(t, "kEspeakSetVoiceFailed")
            /\ UNCHANGED << loc, hist >>
       ELSE LET phonemes == EspeakPhonemes(args[t].text)
                id_map == CfgIdMap(Config(t))
                ids == phonemes_to_ids(phonemes, id_map, DefaultId(id_map))
            IN /\ loc' = [loc EXCEPT ![t].phonemes = phonemes,
                                     ![t].phoneme_ids = ids]
               /\ hist' = Stage(t, "Encoding")
               /\ IF IdsEmpty(ids) THEN Fail(t, "kPhonemeIdsEmpty")
                  ELSE IF SpeakersReadThrows(Config(t)) THEN Throw(t)
                  ELSE /\ pc' = [pc EXCEPT ![t] = "lock"]
                       /\ UNCHANGED out
  /\ UNCHANGED << globals, useEspeak, aux, args, crashed >>

\* ---------------------------------------------------------- session cache
\* piper_engine.cpp:231: std::lock_guard<std::mutex> lock(g_session_mutex).
Lock(t) ==
  /\ ~crashed
  /\ pc[t] = "lock"
  /\ g_session_mutex = 0
  /\ g_session_mutex' = t
  /\ hist' = [hist EXCEPT
       ![t].stages = Append(@, "SessionAcquire"),
       ![t].entry_path = g_cached_model_path,
       ![t].entry_session = g_cached_session]
  /\ pc' = [pc EXCEPT ![t] = "check_path"]
  /\ UNCHANGED << g_cached_session, g_cached_model_path, g_cached_espeak_path,
                  g_espeak_initialized, s_last_logged_session, s_session_has_sid,
                  heap, useEspeak, aux, args, loc, out, crashed >>

\* Mutant of PathChanged: every call is treated as a change of model.
PathChanged_always(t) == TRUE

\* piper_engine.cpp:232
PathChanged(t) == g_cached_model_path # args[t].model_path

\* Mutant of AfterCheckPath: the stale session is not destroyed on a change
\* of model.
AfterCheckPath_noDestroy(t) ==
  IF PathChanged(t) THEN "set_path" ELSE "check_session"

\* piper_engine.cpp:232-233: where the critical section goes next.
AfterCheckPath(t) ==
  IF PathChanged(t)
    THEN (IF g_cached_session # NULL THEN "destroy" ELSE "set_path")
    ELSE "check_session"

\* piper_engine.cpp:232-233
CheckPath(t) ==
  /\ ~crashed
  /\ pc[t] = "check_path"
  /\ pc' = [pc EXCEPT ![t] = AfterCheckPath(t)]
  /\ UNCHANGED << globals, useEspeak, aux, args, loc, out, hist, crashed >>

\* Mutant of destroySession: the object is not deleted (a leak).
destroySession_leak(a) == heap

\* ort_capi_adapter.cpp:126-133: destroySession releases the native session
\* and deletes the PiperOrtSession at address a.
destroySession(a) == [heap EXCEPT ![a] = FreeCell]

\* piper_engine.cpp:234-235.  Every other call that still holds the deleted
\* object's address now holds a dangling pointer.
Destroy(t) ==
  /\ ~crashed
  /\ pc[t] = "destroy"
  /\ heap' = destroySession(g_cached_session)
  /\ loc' = [u \in Threads |->
       IF loc[u].session = g_cached_session /\ heap'[g_cached_session] = FreeCell
         THEN [loc[u] EXCEPT !.stale = TRUE] ELSE loc[u]]
  /\ g_cached_session' = NULL
  /\ hist' = [hist EXCEPT ![t].ops = Append(@, "destroy")]
  /\ pc' = [pc EXCEPT ![t] = "set_path"]
  /\ UNCHANGED << g_session_mutex, g_cached_model_path, g_cached_espeak_path,
                  g_espeak_initialized, s_last_logged_session, s_session_has_sid,
                  useEspeak, aux, args, out, crashed >>

\* piper_engine.cpp:237
SetPath(t) ==
  /\ ~crashed
  /\ pc[t] = "set_path"
  /\ g_cached_model_path' = args[t].model_path
  /\ pc' = [pc EXCEPT ![t] = "check_session"]
  /\ UNCHANGED << g_session_mutex, g_cached_session, g_cached_espeak_path,
                  g_espeak_initialized, s_last_logged_session, s_session_has_sid,
                  heap, useEspeak, aux, args, loc, out, hist, crashed >>

\* Mutant of NeedCreate: a session is only created on a change of model.
NeedCreate_onPathChange(t) ==
  g_cached_session = NULL /\ hist[t].entry_path # args[t].model_path

NeedCreate_always(t) == TRUE
\* piper_engine.cpp:239
NeedCreate(t) == g_cached_session = NULL

\* The address operator new gives the next PiperOrtSession.  The object's
\* address is only ever compared with nullptr and with copies of itself, so
\* which free address it is makes no difference: the lowest one.
NewAddr == CHOOSE a \in Addrs \ Live : \A b \in Addrs \ Live : a <= b

\* ort_capi_adapter.cpp:82-124 called at piper_engine.cpp:240: createSession
\* returns a new PiperOrtSession wrapping a native session at an address no
\* live native session has (the runtime may reuse the address of a released
\* one), or nullptr when the runtime refuses.
CreateSession(t) ==
  /\ ~crashed
  /\ pc[t] = "check_session"
  /\ NeedCreate(t)
  /\ hist' = [hist EXCEPT ![t].ops = Append(@, "create")]
  /\ \/ /\ Addrs \ Live # {}
        /\ \E o \in Addrs \ { heap[b].ort : b \in Live } :
             heap' = [heap EXCEPT ![NewAddr] =
                        [path |-> args[t].model_path, ort |-> o]]
        /\ g_cached_session' = NewAddr
        /\ pc' = [pc EXCEPT ![t] = "take"]
     \/ /\ g_cached_session' = NULL
        /\ pc' = [pc EXCEPT ![t] = "create_failed"]
        /\ UNCHANGED heap
  /\ UNCHANGED << g_session_mutex, g_cached_model_path, g_cached_espeak_path,
                  g_espeak_initialized, s_last_logged_session, s_session_has_sid,
                  useEspeak, aux, args, loc, out, crashed >>

\* piper_engine.cpp:239 when a session is cached: nothing is created.
KeepSession(t) ==
  /\ ~crashed
  /\ pc[t] = "check_session"
  /\ ~NeedCreate(t)
  /\ pc' = [pc EXCEPT ![t] = "take"]
  /\ UNCHANGED << globals, useEspeak, aux, args, loc, out, hist, crashed >>

\* piper_engine.cpp:241-244: set_err, return false; the lock_guard unlocks.
CreateFailed(t) ==
  /\ ~crashed
  /\ pc[t] = "create_failed"
  /\ Fail(t, "kOrtCreateSessionFailed")
  /\ g_session_mutex' = 0
  /\ UNCHANGED << g_cached_session, g_cached_model_path, g_cached_espeak_path,
                  g_espeak_initialized, s_last_logged_session, s_session_has_sid,
                  heap, useEspeak, aux, args, loc, hist, crashed >>

\* piper_engine.cpp:246-247: session = g_cached_session; the block ends and
\* the lock_guard unlocks.
Take(t) ==
  /\ ~crashed
  /\ pc[t] = "take"
  /\ loc' = [loc EXCEPT ![t].session = g_cached_session]
  /\ g_session_mutex' = 0
  /\ pc' = [pc EXCEPT ![t] = "inf_entry"]
  /\ UNCHANGED << g_cached_session, g_cached_model_path, g_cached_espeak_path,
                  g_espeak_initialized, s_last_logged_session, s_session_has_sid,
                  heap, useEspeak, aux, args, out, hist, crashed >>

\* ------------------------------------------------------------ runInference
\* The positions of a call inside piper_ort::runInference, after its entry.
InfPcs == {"inf_sid_detect", "inf_run"}

\* The call's session pointer no longer points to the object it took from
\* the cache: that object was deleted by destroySession (the address is free,
\* or a later session has been allocated at it).
Dangling(t) == loc[t].session # NULL /\ loc[t].stale

\* What reading session->session gives: the native session of the object,
\* or, through a dangling pointer, any value.
SessionField(t) ==
  IF Dangling(t) THEN Addrs \cup {NULL} ELSE {heap[loc[t].session].ort}

\* Whether the live native session at address o was loaded from a model that
\* declares a "sid" input.
NativeHasSid(o) == \E a \in Live : heap[a].ort = o /\ ModelHasSid(heap[a].path)

\* Reading or calling through a dangling session pointer is undefined
\* behaviour; one of its outcomes is that the process dies.
UseAfterFree(t) ==
  /\ ~crashed
  /\ pc[t] \in {"inf_entry"} \cup InfPcs
  /\ Dangling(t)
  /\ crashed' = TRUE
  /\ UNCHANGED << globals, useEspeak, aux, pc, args, loc, out, hist >>

\* ort_capi_adapter.cpp:157-230: the null checks, the memory info and the
\* four input tensors (each creation can fail, and then out is empty), then
\* the test session->session != s_last_logged_session.
InfEntry(t) ==
  /\ ~crashed
  /\ pc[t] = "inf_entry"
  /\ hist' = Stage(t, "Inferring")
  /\ IF loc[t].session = NULL
       THEN pc' = [pc EXCEPT ![t] = "inf_ret"]
       ELSE \E o \in SessionField(t), created \in BOOLEAN :
              pc' = [pc EXCEPT ![t] =
                 IF o = NULL \/ ~created THEN "inf_ret"
                 ELSE IF o # s_last_logged_session THEN "inf_sid_detect"
                 ELSE "inf_run"]
  /\ UNCHANGED << globals, useEspeak, aux, args, loc, out, crashed >>

\* ort_capi_adapter.cpp:21-45: true iff an input is named "sid"; false also
\* when the allocator or the input count cannot be got, and an input whose
\* name cannot be got is skipped.
logSessionIONamesAndDetectSid(o) == {NativeHasSid(o), FALSE}

\* ort_capi_adapter.cpp:231-232
InfSidDetect(t) ==
  /\ ~crashed
  /\ pc[t] = "inf_sid_detect"
  /\ \E o \in SessionField(t) :
       /\ \E b \in (IF Dangling(t) THEN BOOLEAN
                    ELSE logSessionIONamesAndDetectSid(o)) :
            s_session_has_sid' = b
       /\ s_last_logged_session' = o
  /\ pc' = [pc EXCEPT ![t] = "inf_run"]
  /\ UNCHANGED << g_session_mutex, g_cached_session, g_cached_model_path,
                  g_cached_espeak_path, g_espeak_initialized,
                  heap, useEspeak, aux, args, loc, out, hist, crashed >>

\* ort_capi_adapter.cpp:234-344: use_sid = s_session_has_sid, Run, and the
\* reading of the output tensor.  The runtime rejects a feed whose input
\* names are not the model's; any later query can fail, the output can be
\* null or have total <= 0: all of these return the empty vector.  Otherwise
\* out holds the tensor's data.
RunOutcomes(t) ==
  IF Dangling(t) THEN {<<>>} \cup AudioOutputs
  ELSE IF s_session_has_sid # ModelHasSid(heap[loc[t].session].path) THEN {<<>>}
  ELSE {<<>>} \cup AudioOutputs

InfRun(t) ==
  /\ ~crashed
  /\ pc[t] = "inf_run"
  /\ \E audio \in RunOutcomes(t) : loc' = [loc EXCEPT ![t].audio_float = audio]
  /\ pc' = [pc EXCEPT ![t] = "inf_ret"]
  /\ UNCHANGED << globals, useEspeak, aux, args, out, hist, crashed >>

\* ------------------------------------------------------- post-processing
Abs(x) == IF x < 0 THEN -x ELSE x
RECURSIVE MaxAbs(_, _)
RECURSIVE MaxAbs_signed(_, _)
MaxAbs_signed(audio, m) ==
  IF audio = <<>> THEN m
  ELSE MaxAbs_signed(Tail(audio), IF Head(audio) > m THEN Head(audio) ELSE m)
\* piper_engine.cpp:257-261: the running maximum, started at m.
MaxAbs(audio, m) ==
  IF audio = <<>> THEN m
  ELSE MaxAbs(Tail(audio), IF Abs(Head(audio)) > m THEN Abs(Head(audio)) ELSE m)

\* The samples and every intermediate value are C++ floats (IEEE-754
\* binary32).  A positive float is [m, e], standing for m * 2^e with
\* 2^23 <= m < 2^24; results are rounded to nearest, ties to even.  The values
\* met here are far from the subnormal and the infinite range.
F32Normal(m, e) == [m |-> m, e |-> e]
RECURSIVE F32FromInt(_, _)
\* The float equal to n * 2^e, for an integer 0 < n < 2^24.
F32FromInt(n, e) ==
  IF n >= 2^23 THEN F32Normal(n, e) ELSE F32FromInt(2 * n, e - 1)
\* Rounding: q is the result cut off to 24 bits, and what was cut off is
\* less than (up = "lt"), equal to ("eq") or more than ("gt") half a unit.
F32Round(q, e, up) ==
  LET r == IF up = "gt" \/ (up = "eq" /\ q % 2 = 1) THEN q + 1 ELSE q
  IN IF r = 2^24 THEN F32Normal(2^23, e + 1) ELSE F32Normal(r, e)
F32Half(rest, half) ==
  IF rest > half THEN "gt" ELSE IF rest = half THEN "eq" ELSE "lt"
RECURSIVE F32LongDiv(_, _, _, _)
\* bits more binary digits of the quotient q, remainder rem, divisor den.
F32LongDiv(q, rem, den, bits) ==
  IF bits = 0 THEN [q |-> q, rem |-> rem]
  ELSE IF 2 * rem >= den THEN F32LongDiv(2 * q + 1, 2 * rem - den, den, bits - 1)
  ELSE F32LongDiv(2 * q, 2 * rem, den, bits - 1)
\* a / b
F32Div(a, b) ==
  LET bits == IF a.m >= b.m THEN 23 ELSE 24
      d == F32LongDiv(a.m \div b.m, a.m % b.m, b.m, bits)
  IN F32Round(d.q, a.e - b.e - bits, F32Half(2 * d.rem, b.m))
\* a * b: the 48-bit product of the mantissas is formed from 12-bit halves,
\* as hi * 2^24 + lo.
F32Mul(a, b) ==
  LET a1 == a.m \div 4096
      a0 == a.m % 4096
      b1 == b.m \div 4096
      b0 == b.m % 4096
      mid == a1 * b0 + a0 * b1
      lo_sum == a0 * b0 + (mid % 4096) * 4096
      lo == lo_sum % 2^24
      hi == a1 * b1 + mid \div 4096 + lo_sum \div 2^24
  IN IF hi >= 2^23
       THEN F32Round(hi, a.e + b.e + 24, F32Half(lo, 2^23))
       ELSE F32Round(2 * hi + lo \div 2^23, a.e + b.e + 23,
                     F32Half(lo % 2^23, 2^22))
\* a > b
F32Greater(a, b) == a.e > b.e \/ (a.e = b.e /\ a.m > b.m)
\* static_cast<int16_t>(a) for a float below 2^15: the integer part.
F32Trunc(a) ==
  IF a.e >= 0 THEN a.m * 2^a.e
  ELSE IF -a.e >= 24 THEN 0
  ELSE a.m \div 2^(-a.e)
\* The float a sample of k thousandths is held in: k / 1000.0f, for k > 0.
F32Sample(k) == F32Div(F32FromInt(k, 0), F32FromInt(1000, 0))

\* piper_engine.cpp:262, 265-267: v * (kMaxWavValue / max_val), clamped to
\* [-kMaxWavValue, kMaxWavValue], converted with static_cast<int16_t>
\* (truncation toward zero).
ToSample(v, max_val) ==
  IF v = 0 THEN 0
  ELSE LET wav == F32FromInt(kMaxWavValue, 0)
           scale == F32Div(wav, F32Sample(max_val))
           s == F32Mul(F32Sample(Abs(v)), scale)
           c == F32Trunc(IF F32Greater(s, wav) THEN wav ELSE s)
       IN IF v < 0 THEN -c ELSE c

\* piper_engine.cpp:256-268: the samples pushed onto pcm_out.
ToPcm16(audio) ==
  LET max_val == MaxAbs(audio, kMaxValFloor)
  IN [i \in 1..Len(audio) |-> ToSample(audio[i], max_val)]

\* piper_engine.cpp:256-268 applied to each buffer a model can return.
PostProcessed == [audio \in AudioOutputs |-> ToPcm16(audio)]

\* piper_engine.cpp:251-269
Post(t) ==
  /\ ~crashed
  /\ pc[t] = "inf_ret"
  /\ IF loc[t].audio_float = <<>>
       THEN /\ Fail(t, "kOrtRunInferenceFailed")
            /\ UNCHANGED hist
       ELSE /\ hist' = Stage(t, "PostProcessing")
            /\ out' = [out EXCEPT
                 ![t].pcm_out = @ \o PostProcessed[loc[t].audio_float],
                 ![t].ret = "true"]
            /\ pc' = [pc EXCEPT ![t] = "done"]
  /\ UNCHANGED << globals, useEspeak, aux, args, loc, crashed >>

\* synthesize has returned (or thrown) and the host thread is free to call
\* again.
Return(t) ==
  /\ ~crashed
  /\ pc[t] = "done"
  /\ pc' = [pc EXCEPT ![t] = "idle"]
  /\ args' = [args EXCEPT ![t] = NoArgs]
  /\ loc' = [loc EXCEPT ![t] = NoLoc]
  /\ out' = [out EXCEPT ![t] = NoOut]
  /\ hist' = [hist EXCEPT ![t] = NoHist]
  /\ UNCHANGED << globals, useEspeak, aux, crashed >>

\* ------------------------------------------------------------ specification
Next ==
  \E t \in Threads :
    \/ Call(t)
    \/ Phonemize(t)
    \/ EspeakInit(t)
    \/ EspeakVoice(t)
    \/ Lock(t)
    \/ CheckPath(t)
    \/ Destroy(t)
    \/ SetPath(t)
    \/ CreateSession(t)
    \/ KeepSession(t)
    \/ CreateFailed(t)
    \/ Take(t)
    \/ UseAfterFree(t)
    \/ InfEntry(t)
    \/ InfSidDetect(t)
    \/ InfRun(t)
    \/ Post(t)
    \/ Return(t)

Spec == Init /\ [][Next]_vars

\* ------------------------------------------------------ components, alone
\* The state of a process in which no thread is calling synthesize; the
\* component-level runs below are made in such a process.
SynthIdle ==
  /\ g_session_mutex = 0
  /\ g_cached_session = NULL
  /\ g_cached_model_path = ""
  /\ g_cached_espeak_path = ""
  /\ g_espeak_initialized = FALSE
  /\ s_last_logged_session = NULL
  /\ s_session_has_sid = FALSE
  /\ heap = [a \in Addrs |-> FreeCell]
  /\ useEspeak = TRUE
  /\ pc = [t \in Threads |-> "idle"]
  /\ args = [t \in Threads |-> NoArgs]
  /\ loc = [t \in Threads |-> NoLoc]
  /\ out = [t \in Threads |-> NoOut]
  /\ hist = [t \in Threads |-> NoHist]
  /\ crashed = FALSE
\* The synthesize calls' part of the state.
synthVars ==
  << globals, useEspeak, pc, args, loc, out, hist, crashed >>

\* ------------------------------------- createSession / runInference, alone
\* One call of piper_ort::createSession or piper_ort::runInference against a
\* native library each of whose calls can succeed or return a status object.
\* ri.live holds the native handles created and not released, ri.over those
\* released while not alive (released twice, or never created); ri.st_live
\* and ri.st_over are the same for the status objects, named by the call that
\* returned them; ri.failed holds the calls that returned a status, ri.nulls
\* the pointers a successful call left null.

\* The shapes the native library reports for the output tensor.
OutputShapes == { <<1, 3>>, <<1, 1, 2>>, <<1, 0>>, <<-1, 2>>, <<>> }
\* The data of the output tensor: n floats.
TensorData(n) == [i \in 1..n |-> 250 * i]

\* ort_capi_adapter.cpp:135-141: the handles runInference passes to
\* releaseOrtValues, in the order of the parameters.
OrtValues ==
  << "memory_info", "input_value", "input_lengths_value", "scales_value",
     "sid_value", "output_value" >>
\* ort_capi_adapter.cpp:182-221: the four tensors, in the order of creation.
InputTensors ==
  << "input_value", "input_lengths_value", "scales_value", "sid_value" >>

\* A call of the native library gives back a handle.
Created(r, h) == [r EXCEPT !.live = @ \cup {h}]
\* A Release... call of the native library on a handle.
Released(r, h) ==
  [r EXCEPT !.live = @ \ {h},
            !.over = IF h \in r.live THEN @ ELSE @ \cup {h}]
\* A call of the native library returns a status object instead of nullptr.
StatusOf(r, call) ==
  [r EXCEPT !.failed = @ \cup {call}, !.st_live = @ \cup {call}]
\* api->ReleaseStatus(status); ort_capi_adapter.cpp:47-52 logOrtStatus ends
\* with the same call.
ReleaseStatus(r, call) ==
  [r EXCEPT !.st_live = @ \ {call},
            !.st_over = IF call \in r.st_live THEN @ ELSE @ \cup {call}]

RECURSIVE ReleaseEach(_, _)
ReleaseEach(r, hs) ==
  IF hs = <<>> THEN r
  ELSE ReleaseEach(IF Head(hs) \in r.live THEN Released(r, Head(hs)) ELSE r,
                   Tail(hs))
\* ort_capi_adapter.cpp:135-148: every pointer that is not null is released.
\* A local of runInference is not null exactly when its handle was created.
releaseOrtValues(r) == ReleaseEach(r, OrtValues)

\* return out; / return nullptr; / return s;
RiReturn(r, res) == [r EXCEPT !.pc = "returned", !.result = res]

InitOrt ==
  /\ SynthIdle
  /\ enc = NoEnc
  /\ ovr = NoOvr
  /\ pp = NoPp
  /\ \E start \in {"cs_env", "ri_entry"}, s \in BOOLEAN, sh \in OutputShapes :
       ri = [NoRi EXCEPT !.pc = start, !.session = s, !.shape = sh]

\* ort_capi_adapter.cpp:83-96: getApi, new PiperOrtSession, CreateEnv.
CsEnv ==
  /\ ri.pc = "cs_env"
  /\ \E api \in BOOLEAN, ok \in BOOLEAN :
       ri' = IF ~api THEN RiReturn(ri, "nullptr")
             ELSE IF ~ok
               THEN RiReturn(ReleaseStatus(StatusOf(ri, "CreateEnv"), "CreateEnv"),
                             "nullptr")
             ELSE [Created(ri, "env") EXCEPT !.pc = "cs_options"]
  /\ UNCHANGED << synthVars, enc, ovr, pp >>

\* ort_capi_adapter.cpp:98-108
CsOptions ==
  /\ ri.pc = "cs_options"
  /\ \E ok \in BOOLEAN :
       ri' = IF ~ok
               THEN LET r1 == ReleaseStatus(StatusOf(ri, "CreateSessionOptions"),
                                            "CreateSessionOptions")
                    IN RiReturn(Released(r1, "env"), "nullptr")
             ELSE [Created(ri, "session_options") EXCEPT !.pc = "cs_session"]
  /\ UNCHANGED << synthVars, enc, ovr, pp >>

\* ort_capi_adapter.cpp:110-123
CsSession ==
  /\ ri.pc = "cs_session"
  /\ \E ok \in BOOLEAN :
       ri' = IF ~ok
               THEN LET r1 == ReleaseStatus(StatusOf(ri, "CreateSession"),
                                            "CreateSession")
                        r2 == Released(r1, "session_options")
                    IN RiReturn(Released(r2, "env"), "nullptr")
             ELSE RiReturn(Created(ri, "session"), "session")
  /\ UNCHANGED << synthVars, enc, ovr, pp >>

\* What a step of createSession or runInference alone leaves unchanged.
exceptRi == << synthVars, enc, ovr, pp >>

\* ort_capi_adapter.cpp:157-172: the null checks, then CreateCpuMemoryInfo.
RiEntry ==
  /\ ri.pc = "ri_entry"
  /\ \E ok \in BOOLEAN :
       ri' = IF ~ri.session THEN RiReturn(ri, "vector")
             ELSE IF ~ok
               THEN RiReturn(ReleaseStatus(StatusOf(ri, "CreateCpuMemoryInfo"),
                                           "CreateCpuMemoryInfo"), "vector")
             ELSE [Created(ri, "memory_info") EXCEPT !.pc = "ri_tensor"]
  /\ UNCHANGED exceptRi

\* ort_capi_adapter.cpp:182-221: the next of the four input tensors.  The
\* "sid" tensor is made for every model.
RiTensor ==
  /\ ri.pc = "ri_tensor"
  /\ LET made == Cardinality({i \in 1..Len(InputTensors) :
                                InputTensors[i] \in ri.live})
         call == "CreateTensorWithDataAsOrtValue"
     IN \E ok \in BOOLEAN :
          ri' = IF ~ok
                  THEN RiReturn(releaseOrtValues(
                         ReleaseStatus(StatusOf(ri, call), call)), "vector")
                ELSE [Created(ri, InputTensors[made + 1]) EXCEPT
                        !.pc = IF made + 1 = Len(InputTensors)
                                 THEN "ri_introspect" ELSE "ri_tensor"]
  /\ UNCHANGED exceptRi

\* ort_capi_adapter.cpp:21-45: the calls of logSessionIONamesAndDetectSid
\* that can return a status: one of the first three (each returns false at
\* once), or any of the name queries (the loop goes on).
IntrospectFailures ==
  { {"GetAllocatorWithDefaultOptions"}, {"SessionGetInputCount"},
    {"SessionGetOutputCount"} }
  \cup SUBSET {"SessionGetInputName", "SessionGetOutputName"}

\* ort_capi_adapter.cpp:227-233 with 21-45: the session is introspected
\* unless it is the one introspected last; the status objects returned to
\* logSessionIONamesAndDetectSid are compared with nullptr and dropped.
RiIntrospect ==
  /\ ri.pc = "ri_introspect"
  /\ \E known \in BOOLEAN, fs \in IntrospectFailures :
       ri' = IF known THEN [ri EXCEPT !.pc = "ri_run"]
             ELSE [ri EXCEPT !.pc = "ri_run", !.failed = @ \cup fs,
                             !.st_live = @ \cup fs]
  /\ UNCHANGED exceptRi

\* ort_capi_adapter.cpp:247-255: Run; on success outputs[0] holds the output
\* value or is still null.
RiRun ==
  /\ ri.pc = "ri_run"
  /\ \E ok \in BOOLEAN, produced \in BOOLEAN :
       ri' = IF ~ok
               THEN RiReturn(releaseOrtValues(
                      ReleaseStatus(StatusOf(ri, "Run"), "Run")), "vector")
             ELSE [(IF produced THEN Created(ri, "output_value")
                    ELSE [ri EXCEPT !.nulls = @ \cup {"outputs[0]"}])
                     EXCEPT !.pc = "ri_output"]
  /\ UNCHANGED exceptRi

\* ort_capi_adapter.cpp:263-267
RiOutput ==
  /\ ri.pc = "ri_output"
  /\ ri' = IF "output_value" \notin ri.live
             THEN RiReturn(releaseOrtValues(ri), "vector")
           ELSE [ri EXCEPT !.pc = "ri_type_shape"]
  /\ UNCHANGED exceptRi

\* ort_capi_adapter.cpp:270-276
RiTypeAndShape ==
  /\ ri.pc = "ri_type_shape"
  /\ \E ok \in BOOLEAN :
       ri' = IF ~ok
               THEN RiReturn(releaseOrtValues(
                      ReleaseStatus(StatusOf(ri, "GetTensorTypeAndShape"),
                                    "GetTensorTypeAndShape")), "vector")
             ELSE [Created(ri, "tensor_info") EXCEPT !.pc = "ri_dim_count"]
  /\ UNCHANGED exceptRi

\* ort_capi_adapter.cpp:279-285 and 288-294: on a status, ReleaseStatus,
\* ReleaseTensorTypeAndShapeInfo, releaseOrtValues, return out.
QueryFailed(r, call) ==
  RiReturn(releaseOrtValues(
    Released(ReleaseStatus(StatusOf(r, call), call), "tensor_info")), "vector")

\* ort_capi_adapter.cpp:278-285
RiDimensionsCount ==
  /\ ri.pc = "ri_dim_count"
  /\ \E ok \in BOOLEAN :
       ri' = IF ~ok THEN QueryFailed(ri, "GetDimensionsCount")
             ELSE [ri EXCEPT !.pc = "ri_dims"]
  /\ UNCHANGED exceptRi

\* ort_capi_adapter.cpp:287-294
RiDimensions ==
  /\ ri.pc = "ri_dims"
  /\ \E ok \in BOOLEAN :
       ri' = IF ~ok THEN QueryFailed(ri, "GetDimensions")
             ELSE [ri EXCEPT !.pc = "ri_elem_type"]
  /\ UNCHANGED exceptRi

RECURSIVE TotalElements(_)
\* ort_capi_adapter.cpp:297-298: total = 1; total *= dims[i] for each i.
TotalElements(dims) ==
  IF dims = <<>> THEN 1
  ELSE TotalElements(SubSeq(dims, 1, Len(dims) - 1)) * dims[Len(dims)]

\* ort_capi_adapter.cpp:299-311: the element type is asked for the log line
\* only; a status it returns is compared with nullptr and dropped, and the
\* call goes on.  Then the type-and-shape info is released.
RiElementType ==
  /\ ri.pc = "ri_elem_type"
  /\ \E ok \in BOOLEAN :
       ri' = [Released(IF ok THEN ri ELSE StatusOf(ri, "GetTensorElementType"),
                       "tensor_info")
                EXCEPT !.pc = "ri_total"]
  /\ UNCHANGED exceptRi

\* ort_capi_adapter.cpp:313-317
RiTotal ==
  /\ ri.pc = "ri_total"
  /\ ri' = IF TotalElements(ri.shape) <= 0
             THEN RiReturn(releaseOrtValues(ri), "vector")
           ELSE [ri EXCEPT !.pc = "ri_data"]
  /\ UNCHANGED exceptRi

\* ort_capi_adapter.cpp:319-330: GetTensorData returns a status, or a null
\* pointer, or the data.
RiTensorData ==
  /\ ri.pc = "ri_data"
  /\ \E ok \in BOOLEAN, data \in BOOLEAN :
       ri' = IF ~ok
               THEN RiReturn(releaseOrtValues(
                      ReleaseStatus(StatusOf(ri, "GetTensorData"),
                                    "GetTensorData")), "vector")
             ELSE IF ~data
               THEN RiReturn(releaseOrtValues(
                      [ri EXCEPT !.nulls = @ \cup {"data"}]), "vector")
             ELSE [ri EXCEPT !.pc = "ri_assign"]
  /\ UNCHANGED exceptRi

assign_short(data, total) == SubSeq(data, 1, total - 1)
\* ort_capi_adapter.cpp:342: out.assign(data, data + total)
assign(data, total) == SubSeq(data, 1, total)

\* ort_capi_adapter.cpp:342-344: the tensor holds as many floats as its
\* shape says.
RiAssign ==
  /\ ri.pc = "ri_assign"
  /\ LET total == TotalElements(ri.shape)
     IN ri' = RiReturn(releaseOrtValues(
                [ri EXCEPT !.out = assign(TensorData(total), total)]), "vector")
  /\ UNCHANGED exceptRi

\* piper_engine.cpp:239-244, 249-254: what synthesize makes of the result.
SynthMap ==
  /\ ri.pc = "returned"
  /\ ri' = [ri EXCEPT
       !.pc = "mapped",
       !.error = CASE ri.result = "nullptr" -> "kOrtCreateSessionFailed"
                   [] ri.result = "vector" /\ ri.out = <<>> ->
                        "kOrtRunInferenceFailed"
                   [] OTHER -> "kNone"]
  /\ UNCHANGED exceptRi

NextOrt ==
  \/ CsEnv
  \/ CsOptions
  \/ CsSession
  \/ RiEntry
  \/ RiTensor
  \/ RiIntrospect
  \/ RiRun
  \/ RiOutput
  \/ RiTypeAndShape
  \/ RiDimensionsCount
  \/ RiDimensions
  \/ RiElementType
  \/ RiTotal
  \/ RiTensorData
  \/ RiAssign
  \/ SynthMap

SpecOrt == InitOrt /\ [][NextOrt]_vars

\* -------------------------------------------------- phoneme encoder, alone
\* One run of lines 200-204 and 218-222 of synthesize on a phonetic string and
\* a configuration drawn from bounded sets.

\* The longest phonetic string drawn, in symbols.
MaxSyms == 3
\* The symbols phonetic strings are drawn from: "b" has no entry in any map.
EncSymbols == {symA, symB, symSchwa, kSpace}
RECURSIVE SeqsUpTo(_, _)
SeqsUpTo(S, n) ==
  IF n = 0 THEN {<<>>}
  ELSE LET shorter == SeqsUpTo(S, n - 1)
       IN shorter \cup { Append(q, x) : q \in shorter, x \in S }
\* The values of config["phoneme_id_map"] drawn: no such key, or an object
\* holding some of the entries of FullMapJson.
EncMaps ==
  {JAbsent} \cup
  { JObj([k \in K |-> FullMapJson.o[k]]) : K \in SUBSET DOMAIN FullMapJson.o }

RECURSIVE Utf8(_)
\* piper_engine.cpp:128-136: the phonetic string phonemize_espeak builds, the
\* bytes of its symbols one after the other.
Utf8(syms) == IF syms = <<>> THEN <<>> ELSE Head(syms) \o Utf8(Tail(syms))

InitEnc ==
  /\ SynthIdle
  /\ ri = NoRi
  /\ ovr = NoOvr
  /\ pp = NoPp
  /\ \E syms \in SeqsUpTo(EncSymbols, MaxSyms), pim \in EncMaps :
       enc = [NoEnc EXCEPT !.pc = "ready", !.syms = syms, !.pim = pim]

\* piper_engine.cpp:200-204, 218-222
Encode ==
  /\ enc.pc = "ready"
  /\ LET id_map == parse_phoneme_id_map(enc.pim)
         ids == phonemes_to_ids(Utf8(enc.syms), id_map, DefaultId(id_map))
     IN enc' = [enc EXCEPT
          !.pc = "done",
          !.ids = ids,
          !.error = IF IdsEmpty(ids) THEN "kPhonemeIdsEmpty" ELSE "kNone"]
  /\ UNCHANGED << synthVars, ri, ovr, pp >>

NextEnc == Encode

SpecEnc == InitEnc /\ [][NextEnc]_vars

\* ------------------------------------------- synthesis parameters, alone
\* One call of synthesize as piper_engine.h declares it, with a
\* SynthesizeOverrides (noise_scale, length_scale, noise_w, gain_db, in
\* thousandths; a default-constructed one holds -1 in every field), as far as
\* the parameters of inference and post-processing go.

\* The values an override field is drawn from.
OverrideValues == {-1000, 0, 1500}
\* piper_engine.cpp:256-268: the samples are scaled by kMaxWavValue / max_val
\* and by nothing else, a gain of 0 dB.
AppliedGainDb == 0

InitOvr ==
  /\ SynthIdle
  /\ enc = NoEnc
  /\ ri = NoRi
  /\ pp = NoPp
  /\ \E doc \in {DocEmpty, DocFull},
        o \in [1..4 -> OverrideValues] :
       ovr = [NoOvr EXCEPT !.pc = "called", !.doc = doc,
                           !.overrides = <<o[1], o[2], o[3], o[4]>>]

\* piper_engine.cpp:153-159, 188-194, 250, 256-268: the definition of
\* synthesize has no overrides parameter; noise_scale, length_scale and
\* noise_w passed to runInference are the ones read from the configuration,
\* and no gain enters the conversion to int16.
ResolveParams ==
  /\ ovr.pc = "called"
  /\ ovr' = [ovr EXCEPT !.pc = "done", !.scales = CfgScales(ovr.doc),
                        !.gain_db = AppliedGainDb]
  /\ UNCHANGED << synthVars, enc, ri, pp >>

NextOvr == ResolveParams

SpecOvr == InitOvr /\ [][NextOvr]_vars

\* ------------------------------------------------- post-processing, alone
\* One run of lines 256-268 of synthesize on float samples drawn from a
\* bounded set (in thousandths).

\* The longest sample sequence drawn.
MaxSamples == 3
\* The samples drawn: silence, samples below and at the floor of 0.01, and
\* louder ones of both signs.
SampleValues == {-1500, -900, -10, 0, 4, 450, 900, 1000}

InitPcm ==
  /\ SynthIdle
  /\ enc = NoEnc
  /\ ri = NoRi
  /\ ovr = NoOvr
  /\ \E audio \in SeqsUpTo(SampleValues, MaxSamples) :
       pp = [NoPp EXCEPT !.pc = "ready", !.audio_float = audio]

\* piper_engine.cpp:256-268
Convert ==
  /\ pp.pc = "ready"
  /\ pp' = [pp EXCEPT !.pc = "done", !.pcm_out = ToPcm16(pp.audio_float)]
  /\ UNCHANGED << synthVars, enc, ri, ovr >>

NextPcm == Convert

SpecPcm == InitPcm /\ [][NextPcm]_vars

\* ------------------------------------------------------------------ claims
Returned(t) == pc[t] = "done"
\* One of the three arguments that must not be empty is empty.
SomeArgEmpty(t) ==
  args[t].model_path = "" \/ args[t].config_path = "" \/ args[t].text = ""
\* The call has finished its critical section (the lock is still held).
EndOfAcquire(t) == pc[t] \in {"take", "create_failed"}

\* C1: in every reachable state at most one session object that has been
\* created and not yet destroyed exists, whatever the calls and model paths.
C1_AtMostOneSession == Cardinality(Live) <= 1

\* A call has replaced the session of another model while another thread
\* waits for the cache with a different model path.
C1_Witness ==
  \E t, u \in Threads :
    /\ t # u
    /\ pc[t] = "take" /\ hist[t].ops = <<"destroy", "create">>
    /\ pc[u] = "lock" /\ args[u].model_path # args[t].model_path
    /\ Cardinality(Live) = 1

\* C2: no call is inside runInference with a session that destroySession has
\* been called on, and the session it runs is one of the model it asked for.
C2_NoDestroyDuringInference ==
  \A t \in Threads :
    pc[t] \in InfPcs =>
      /\ ~Dangling(t)
      /\ heap[loc[t].session].path = args[t].model_path

C4_CacheConsistent ==
  /\ g_session_mutex = 0 /\ g_cached_session # NULL =>
       /\ g_cached_session \in Live
       /\ heap[g_cached_session].path = g_cached_model_path
  /\ \A t \in Threads :
       pc[t] \in {"check_session", "create_failed"}
         /\ hist[t].entry_path # args[t].model_path =>
         /\ g_cached_model_path = args[t].model_path
         /\ g_cached_session = NULL
         /\ Live = {}

\* The lock is free and the cache holds the session a call created after it
\* destroyed the session of another model.
C4_Witness ==
  \E t \in Threads :
    /\ pc[t] = "inf_entry" /\ hist[t].ops = <<"destroy", "create">>
    /\ g_session_mutex = 0
    /\ g_cached_session = loc[t].session /\ g_cached_session # NULL

\* C5: when createSession fails the call returns false with
\* kOrtCreateSessionFailed, leaving no cached session and the cached path equal
\* to its model path; and a call that finds no cached session under its own
\* path calls createSession.
C5_CreateFailure ==
  \A t \in Threads :
    /\ pc[t] = "create_failed" =>
         g_cached_session = NULL /\ g_cached_model_path = args[t].model_path
    /\ Returned(t) /\ hist[t].ops # <<>> /\ loc[t].session = NULL =>
         out[t].ret = "false" /\ out[t].out_error = "kOrtCreateSessionFailed"
    /\ Returned(t) /\ out[t].out_error = "kOrtCreateSessionFailed" =>
         hist[t].ops[Len(hist[t].ops)] = "create" /\ loc[t].session = NULL
    /\ EndOfAcquire(t) /\ hist[t].entry_session = NULL
         /\ hist[t].entry_path = args[t].model_path =>
         hist[t].ops = <<"create">>

\* A call found its own path cached without a session (a creation had
\* failed), tried again, and failed again.
C5_Witness ==
  \E t \in Threads :
    /\ pc[t] = "create_failed"
    /\ hist[t].entry_session = NULL
    /\ hist[t].entry_path = args[t].model_path
    /\ hist[t].ops = <<"create">>

\* C6: no two calls are inside runInference on the same session at once.
C6_InferenceSerialized ==
  \A t, u \in Threads :
    t # u /\ pc[t] \in InfPcs /\ pc[u] \in InfPcs =>
      loc[t].session # loc[u].session

\* C7: a call that returns false returns an empty pcm_out, whatever the
\* vector held before; one that returns true returns a non-empty pcm_out with
\* one sample per float sample of the inference.
C7_NoPartialPcm ==
  \A t \in Threads :
    Returned(t) =>
      /\ out[t].ret = "false" => out[t].pcm_out = <<>>
      /\ out[t].ret = "true" =>
           /\ out[t].pcm_out # <<>>
           /\ Len(out[t].pcm_out) = Len(loc[t].audio_float)

\* A call given a non-empty vector failed at the inference, and another given
\* a non-empty vector succeeded.
C7_Witness ==
  \E t, u \in Threads :
    /\ Returned(t) /\ args[t].pcm_in # <<>>
    /\ out[t].ret = "false" /\ out[t].out_error = "kOrtRunInferenceFailed"
    /\ Returned(u) /\ args[u].pcm_in # <<>> /\ out[u].ret = "true"

\* C8: a call that has ended either returned true with no error code, or
\* returned false with exactly one error code other than kNone; it never
\* ends by an exception.
C8_OneErrorPerFailure ==
  \A t \in Threads :
    Returned(t) =>
      \/ out[t].ret = "true" /\ out[t].out_error = "kNone"
      \/ out[t].ret = "false" /\ out[t].out_error \in SynthesizeError \ {"kNone"}

\* The type the configuration document is expected to have at each field.
WellTyped(doc) ==
  /\ \A f \in IntFields \cup FloatFields :
       doc[f].type \in {"absent", "number_integer", "number_float"}
  /\ doc.voice.type \in {"absent", "string"}
  /\ \/ doc.phoneme_id_map.type = "absent"
     \/ /\ doc.phoneme_id_map.type = "object"
        /\ \A k \in DOMAIN doc.phoneme_id_map.o :
             /\ doc.phoneme_id_map.o[k].type = "array"
             /\ \A i \in 1..Len(doc.phoneme_id_map.o[k].a) :
                  doc.phoneme_id_map.o[k].a[i].type = "number_integer"

\* C9: a call whose (parseable) configuration document has a known field of
\* an unexpected type fails with kConfigParseFailed; a document whose fields
\* are absent or well typed never fails with it.
C9_BadTypeIsParseFailure ==
  \A t \in Threads :
    LET f == ConfigFile(args[t].config_path) IN
      Returned(t) /\ ~SomeArgEmpty(t) /\ f.exists /\ f.valid =>
        IF WellTyped(f.doc)
          THEN out[t].out_error # "kConfigParseFailed"
          ELSE out[t].ret = "false" /\ out[t].out_error = "kConfigParseFailed"

\* C10: a call with an empty model path, config path or text returns false
\* with kInvalidArgs at once: it has entered no stage (no config file opened,
\* no phonemizer call, no access to the session cache) and returns no PCM.
C10_InvalidArgs ==
  \A t \in Threads :
    pc[t] # "idle" /\ SomeArgEmpty(t) =>
      /\ Returned(t)
      /\ out[t].ret = "false" /\ out[t].out_error = "kInvalidArgs"
      /\ hist[t].stages = <<>> /\ hist[t].ops = <<>>
      /\ loc[t] = NoLoc
      /\ out[t].pcm_out = <<>>

\* A call with only the text empty and a non-empty vector has returned while
\* the cache holds a session.
C10_Witness ==
  \E t \in Threads :
    /\ Returned(t)
    /\ args[t].text = "" /\ args[t].model_path # "" /\ args[t].config_path # ""
    /\ args[t].pcm_in # <<>>
    /\ g_cached_session # NULL


\* The stages of one call in the order of the code, and the error codes each
\* stage reports on failure.
StageOrder ==
  << "ConfigLoading", "Phonemizing", "Encoding", "SessionAcquire", "Inferring",
     "PostProcessing" >>
StageCodes(stage) ==
  CASE stage = "ConfigLoading" -> {"kConfigOpenFailed", "kConfigParseFailed"}
    [] stage = "Phonemizing" ->
         {"kEspeakNotLinked", "kEspeakInitFailed", "kEspeakSetVoiceFailed"}
    [] stage = "Encoding" -> {"kPhonemeIdsEmpty"}
    [] stage = "SessionAcquire" -> {"kOrtCreateSessionFailed"}
    [] stage = "Inferring" -> {"kOrtRunInferenceFailed"}
    [] OTHER -> {}
IsPrefix(s, full) == Len(s) <= Len(full) /\ s = SubSeq(full, 1, Len(s))
LastStage(t) == hist[t].stages[Len(hist[t].stages)]

\* C11: every call enters the stages ConfigLoading, Phonemizing, Encoding,
\* SessionAcquire, Inferring, PostProcessing in this order, each only after
\* the earlier ones succeeded; a call that ends has either passed all of them
\* and returned true, or has failed in the last stage it entered, which is
\* not PostProcessing, and returned false with an error code of that stage.
C11_StagesInOrder ==
  \A t \in Threads :
    /\ IsPrefix(hist[t].stages, StageOrder)
    /\ Returned(t) /\ ~SomeArgEmpty(t) =>
         \/ /\ out[t].ret = "true"
            /\ hist[t].stages = StageOrder
         \/ /\ out[t].ret = "false"
            /\ hist[t].stages # <<>>
            /\ out[t].out_error \in StageCodes(LastStage(t))

\* The configuration file of the call exists, parses, and holds fields of
\* the expected types only.
ConfigLoadable(t) ==
  LET f == ConfigFile(args[t].config_path)
  IN f.exists /\ f.valid /\ WellTyped(f.doc)

\* C12: on a build without espeak-ng a call with non-empty arguments and a
\* loadable configuration does nothing after ConfigLoading but enter
\* Phonemizing and fail with kEspeakNotLinked: it encodes nothing, never
\* takes the lock, never creates, destroys or reads a session, never runs
\* inference; no session ever exists on such a build.  On a build with
\* espeak-ng no call reports kEspeakNotLinked.
C12_EspeakNotLinked ==
  /\ ~useEspeak =>
       /\ g_cached_session = NULL /\ Live = {} /\ g_session_mutex = 0
       /\ \A t \in Threads :
            pc[t] # "idle" /\ ~SomeArgEmpty(t) /\ ConfigLoadable(t) =>
              /\ pc[t] \in {"phonemize", "done"}
              /\ loc[t] = NoLoc
              /\ hist[t].ops = <<>>
              /\ hist[t].stages = IF Returned(t)
                                    THEN << "ConfigLoading", "Phonemizing" >>
                                    ELSE << "ConfigLoading" >>
              /\ Returned(t) => /\ out[t].ret = "false"
                                /\ out[t].out_error = "kEspeakNotLinked"
  /\ useEspeak => \A t \in Threads : out[t].out_error # "kEspeakNotLinked"
C12_Witness ==
  /\ ~useEspeak
  /\ \E t \in Threads :
       /\ Returned(t) /\ ~SomeArgEmpty(t) /\ ConfigLoadable(t)
       /\ args[t].config_path = "full.json"
       /\ out[t].out_error = "kEspeakNotLinked"

\* The step of thread t in which runInference reads use_sid and calls Run
\* on a session that is alive.
RunsInference(t) == pc[t] = "inf_run" /\ pc'[t] = "inf_ret" /\ ~Dangling(t)

\* C13: in every inference run the "sid" tensor is passed if and only if the
\* model of the session being run declares an input named "sid", also after
\* sessions were destroyed and created again and when calls run concurrently.
C13_SidIffDeclared ==
  [][\A t \in Threads :
       RunsInference(t) =>
         (s_session_has_sid <=> ModelHasSid(heap[loc[t].session].path))]_vars

\* createSession or runInference has returned.
OrtReturned == ri.pc \in {"returned", "mapped"}

\* C14: when runInference returns, on whatever path, every native handle it
\* created (memory info, the four input tensors, the output value, the
\* type-and-shape info) and every status object a native call returned to it
\* has been released exactly once; when createSession fails, the env and the
\* session options it created, and the status objects, have been released
\* exactly once.
C14_HandlesReleasedOnce ==
  OrtReturned /\ ri.result \in {"vector", "nullptr"} =>
    /\ ri.live = {} /\ ri.over = {}
    /\ ri.st_live = {} /\ ri.st_over = {}

\* The native calls of runInference that build its inputs, run the model and
\* query the output; and those among them whose answer runInference uses
\* (the element type is asked for the log line only).
InferenceCalls ==
  { "CreateCpuMemoryInfo", "CreateTensorWithDataAsOrtValue", "Run",
    "GetTensorTypeAndShape", "GetDimensionsCount", "GetDimensions",
    "GetTensorElementType", "GetTensorData" }
InferenceCallsUsed == InferenceCalls \ {"GetTensorElementType"}
RECURSIVE ShapeSize(_)
\* The number of elements of a tensor of the given shape.
ShapeSize(shape) ==
  IF shape = <<>> THEN 1 ELSE Head(shape) * ShapeSize(Tail(shape))

\* What the claim says of a run of runInference in which the calls of the
\* set `calls` have to succeed.
InferenceResult(calls) ==
  OrtReturned /\ ri.result = "vector" =>
    /\ ri.out # <<>> =>
         /\ ri.failed \cap calls = {}
         /\ ri.nulls = {}
         /\ ShapeSize(ri.shape) > 0
         /\ ri.out = TensorData(ShapeSize(ri.shape))
    /\ (ri.failed \cap calls # {} \/ "outputs[0]" \in ri.nulls
          \/ ShapeSize(ri.shape) <= 0) => ri.out = <<>>
    /\ ri.pc = "mapped" =>
         ri.error = IF ri.out = <<>> THEN "kOrtRunInferenceFailed" ELSE "kNone"

\* C15 (as stated): runInference returns a non-empty vector only if every
\* tensor construction, Run and every query of the output succeeded and the
\* product of the output dimensions is positive, and the vector then holds
\* exactly that many elements; after a failure, a null output or a product
\* <= 0 it returns the empty vector; synthesize reports kOrtRunInferenceFailed
\* for the empty vector.
C15_AsStated == InferenceResult(InferenceCalls)

\* C15 (amended): the same, for the tensor constructions, Run and the
\* queries whose answer is used (type and shape, dimension count, dimensions,
\* data pointer); a failure of GetTensorElementType, which only feeds a log
\* line, does not end the call.
C15_NonEmptyOnlyIfUsedCallsSucceeded == InferenceResult(InferenceCallsUsed)
C15_Witness ==
  /\ ri.pc = "mapped" /\ ri.result = "vector"
  /\ ri.shape = <<1, 3>> /\ Len(ri.out) = 3 /\ ri.error = "kNone"
  /\ "GetTensorElementType" \in ri.failed

\* The encoder run has ended.
Encoded == enc.pc = "done"
\* The configured map of the run has an entry for the symbol, and its ids.
HasEntry(sym) == enc.pim.type = "object" /\ sym \in DOMAIN enc.pim.o
EntryIds(sym) ==
  IF HasEntry(sym)
    THEN [i \in 1..Len(enc.pim.o[sym].a) |-> enc.pim.o[sym].a[i].n]
    ELSE <<>>
\* The id that stands for a symbol without entry.
FallbackId == IF HasEntry(kSpace) THEN EntryIds(kSpace)[1] ELSE kDefaultId
\* The ids expected for the i-th symbol and the ones after it, each
\* followed by the ids in pad.
RECURSIVE BodyFrom(_, _)
BodyFrom(i, pad) ==
  IF i > Len(enc.syms) THEN <<>>
  ELSE (IF HasEntry(enc.syms[i]) THEN EntryIds(enc.syms[i])
        ELSE <<FallbackId>>) \o pad \o BodyFrom(i + 1, pad)

\* C16: for a non-empty phonetic string all of whose symbols have an entry
\* in a map that has the entries "^", "_" and "$", the encoder gives the ids
\* of "^", the ids of "_", then for each symbol in order its ids followed by
\* the ids of "_", then the ids of "$".
C16_PaddedEncoding ==
  ( /\ Encoded /\ enc.syms # <<>>
    /\ HasEntry(kBos) /\ HasEntry(kPad) /\ HasEntry(kEos)
    /\ \A i \in 1..Len(enc.syms) : HasEntry(enc.syms[i]) )
  => enc.ids = EntryIds(kBos) \o EntryIds(kPad) \o BodyFrom(1, EntryIds(kPad))
                 \o EntryIds(kEos)
C16_Witness ==
  /\ Encoded /\ enc.pim = FullMapJson /\ enc.syms = <<symA, symSchwa>>
  /\ enc.ids = <<1, 0, 14, 0, 59, 60, 0, 2>>

\* C17: for a map without a "_" entry the encoder pads nowhere: it gives the
\* ids of "^" (if there is such an entry), the ids of the symbols one after
\* the other, and the ids of "$" (if there is such an entry).
C17_NoPadNoPadding ==
  Encoded /\ ~HasEntry(kPad) =>
    enc.ids = EntryIds(kBos) \o BodyFrom(1, <<>>) \o EntryIds(kEos)
C17_Witness ==
  /\ Encoded /\ ~HasEntry(kPad) /\ HasEntry(kBos) /\ HasEntry(kEos)
  /\ enc.syms = <<symA, symSchwa>> /\ enc.ids = <<1, 14, 59, 60, 2>>

\* C18: a symbol without entry in the map contributes exactly one id, the
\* first id of the " " entry if there is one and 3 otherwise, where a symbol
\* with an entry contributes its ids; with a configuration without
\* phoneme_id_map a string of k >= 1 symbols encodes to k times the id 3
\* and the call does not fail with kPhonemeIdsEmpty.
C18_UnknownSymbolDefaultId ==
  Encoded =>
    /\ enc.ids = (IF HasEntry(kBos) THEN EntryIds(kBos) \o EntryIds(kPad)
                  ELSE <<>>)
                 \o BodyFrom(1, EntryIds(kPad)) \o EntryIds(kEos)
    /\ enc.pim = JAbsent /\ enc.syms # <<>> =>
         /\ enc.ids = [j \in 1..Len(enc.syms) |-> 3]
         /\ enc.error # "kPhonemeIdsEmpty"
C18_Witness ==
  /\ Encoded /\ enc.syms = <<symA, symB>>
  /\ HasEntry(symA) /\ HasEntry(kSpace)
  /\ ~HasEntry(kPad) /\ ~HasEntry(kBos) /\ ~HasEntry(kEos)
  /\ enc.ids = <<14, 7>>

\* The call of thread t has entered the stage.
Entered(t, stage) ==
  \E i \in 1..Len(hist[t].stages) : hist[t].stages[i] = stage

\* C19: a call whose encoded id sequence is empty fails with
\* kPhonemeIdsEmpty; a call that has entered session acquisition or
\* inference, and a call that has returned true, has at least one id.
C19_EmptyIdsFail ==
  \A t \in Threads :
    /\ Returned(t) /\ Entered(t, "Encoding") /\ loc[t].phoneme_ids = <<>> =>
         out[t].ret = "false" /\ out[t].out_error = "kPhonemeIdsEmpty"
    /\ Entered(t, "SessionAcquire") \/ Entered(t, "Inferring")
         \/ out[t].ret = "true" => Len(loc[t].phoneme_ids) >= 1
C19_Witness ==
  \E t \in Threads :
    /\ Returned(t) /\ Entered(t, "Encoding") /\ loc[t].phoneme_ids = <<>>
    /\ out[t].out_error = "kPhonemeIdsEmpty"
    /\ \E u \in Threads : Entered(u, "Inferring") /\ Len(loc[u].phoneme_ids) >= 1

\* C20: of noise_scale, length_scale, noise_w and the output gain, a call
\* uses the caller's override where it is not negative, and the value of the
\* configuration (or the default) where it is negative.
C20_OverridesHonoured ==
  ovr.pc = "done" =>
    /\ \A i \in 1..3 :
         ovr.scales[i] = IF ovr.overrides[i] >= 0 THEN ovr.overrides[i]
                         ELSE CfgScales(ovr.doc)[i]
    /\ ovr.gain_db = IF ovr.overrides[4] >= 0 THEN ovr.overrides[4] ELSE 0

\* The step of thread t in which espeak_Initialize succeeds.
InitializesEspeak(t) == pc[t] = "espeak_init" /\ pc'[t] = "espeak_voice"

\* C21: the phonemization engine is initialized at most once in the process:
\* no call's espeak_Initialize succeeds once an earlier one has succeeded,
\* whatever the interleaving and the data paths; a failed initialization
\* ends the call with kEspeakInitFailed and leaves g_espeak_initialized false.
C21_EspeakInitializedOnce ==
  [][\A t \in Threads :
       /\ InitializesEspeak(t) => ~g_espeak_initialized
       /\ pc[t] = "espeak_init" /\ pc'[t] = "done" =>
            /\ out'[t].ret = "false"
            /\ out'[t].out_error = "kEspeakInitFailed"
            /\ g_espeak_initialized' = g_espeak_initialized]_vars

\* The conversion has ended.
Converted == pp.pc = "done"
\* The magnitude of a sample, the peak magnitude of the input (not below the
\* floor of 0.01), and the value of the i-th output sample in exact
\* arithmetic: sample * 32767 / peak, clamped, truncated toward zero.
Magnitude(i) == IF pp.audio_float[i] < 0 THEN -pp.audio_float[i]
                ELSE pp.audio_float[i]
PeakMagnitude ==
  CHOOSE m \in {10} \cup {Magnitude(i) : i \in 1..Len(pp.audio_float)} :
    \A i \in 1..Len(pp.audio_float) : m >= Magnitude(i) /\ m >= 10
ExactSample(i) ==
  LET q == (Magnitude(i) * 32767) \div PeakMagnitude
      c == IF q > 32767 THEN 32767 ELSE q
  IN IF pp.audio_float[i] < 0 THEN -c ELSE c
\* The part of the claim that does not depend on rounding: the length, the
\* range, the sign, silence.
PcmShape ==
  /\ Len(pp.pcm_out) = Len(pp.audio_float)
  /\ \A i \in 1..Len(pp.pcm_out) :
       /\ pp.pcm_out[i] >= -32767 /\ pp.pcm_out[i] <= 32767
       /\ pp.audio_float[i] >= 0 => pp.pcm_out[i] >= 0
       /\ pp.audio_float[i] <= 0 => pp.pcm_out[i] <= 0
  /\ (\A i \in 1..Len(pp.audio_float) : pp.audio_float[i] = 0) =>
       \A i \in 1..Len(pp.pcm_out) : pp.pcm_out[i] = 0

\* C22 (as stated): the output has the length of the input, every output
\* sample is sample * (32767 / max(0.01, max|s|)) clamped to
\* [-32767, 32767] and truncated toward zero, a sample of peak magnitude
\* (peak >= 0.01) maps to +-32767, and silence maps to silence.
C22_AsStated ==
  Converted =>
    /\ PcmShape
    /\ \A i \in 1..Len(pp.pcm_out) :
         /\ pp.pcm_out[i] = ExactSample(i)
         /\ Magnitude(i) = PeakMagnitude =>
              pp.pcm_out[i] \in {-32767, 32767}

\* C22 (amended): the same, but the quotient and the product are formed in
\* single precision, so that an output sample is the exact value or differs
\* from it by 1, and a sample of peak magnitude maps to +-32767 or +-32766.
C22_PcmWithinOne ==
  Converted =>
    /\ PcmShape
    /\ \A i \in 1..Len(pp.pcm_out) :
         /\ pp.pcm_out[i] - ExactSample(i) \in {-1, 0, 1}
         /\ Magnitude(i) = PeakMagnitude =>
              pp.pcm_out[i] \in {-32767, -32766, 32766, 32767}
C22_Witness ==
  /\ Converted
  /\ pp.audio_float = <<900, -900, 450>>
  /\ pp.pcm_out = <<32766, -32766, 16383>>

\* C23: for a map with a "_" entry and no "^" entry the encoder output
\* starts with the ids of the first symbol, not with the ids of "_"; the ids
\* of "_" follow the ids of every symbol, and the ids of "$" end the output
\* if there is such an entry.
C23_HeaderNeedsBosAndPad ==
  Encoded /\ HasEntry(kPad) /\ ~HasEntry(kBos) =>
    enc.ids = BodyFrom(1, EntryIds(kPad)) \o EntryIds(kEos)
C23_Witness ==
  /\ Encoded /\ HasEntry(kPad) /\ ~HasEntry(kBos) /\ HasEntry(kEos)
  /\ enc.syms = <<symA, symSchwa>> /\ enc.ids = <<14, 0, 59, 60, 0, 2>>

\* The positions of a call before it asks for the lock, and those after it
\* has left the critical section; the error codes reported from the former.
BeforeAcquire == {"idle", "phonemize", "espeak_init", "espeak_voice"}
AfterAcquire == {"inf_entry", "inf_sid_detect", "inf_run", "inf_ret"}
EarlyErrors ==
  { "kInvalidArgs", "kConfigOpenFailed", "kConfigParseFailed",
    "kEspeakNotLinked", "kEspeakInitFailed", "kEspeakSetVoiceFailed",
    "kPhonemeIdsEmpty" }
\* Thread t takes a step of its call.
StepOf(t) == pc'[t] # pc[t]
\* The session cache, with the session objects.
sessionCache == << g_cached_session, g_cached_model_path, heap >>

\* C24: a call that has failed with kInvalidArgs, kConfigOpenFailed,
\* kConfigParseFailed, kEspeakNotLinked, kEspeakInitFailed,
\* kEspeakSetVoiceFailed or kPhonemeIdsEmpty never asked for the lock and made
\* no createSession or destroySession; none of the steps of a call before it
\* asks for the lock, and none of its steps in or after runInference,
\* changes the cached session, the cached path or a session object; and
\* when a call has failed with kOrtRunInferenceFailed the session it ran,
\* unless another call has destroyed it since, is still alive and cached
\* under the call's model path.
C24_FailedCallsLeaveCache ==
  /\ [](\A t \in Threads :
          /\ Returned(t) /\ out[t].out_error \in EarlyErrors =>
               /\ out[t].ret = "false"
               /\ hist[t].ops = <<>>
               /\ ~Entered(t, "SessionAcquire")
          /\ ( /\ Returned(t) /\ out[t].out_error = "kOrtRunInferenceFailed"
               /\ loc[t].session # NULL /\ ~loc[t].stale ) =>
               /\ loc[t].session \in Live
               /\ g_cached_session = loc[t].session
               /\ g_cached_model_path = args[t].model_path)
  /\ [][\A t \in Threads :
          StepOf(t) /\ pc[t] \in BeforeAcquire \cup AfterAcquire =>
            UNCHANGED sessionCache]_vars
C24_Witness ==
  \E t, u \in Threads :
    /\ Returned(t) /\ out[t].out_error = "kOrtRunInferenceFailed"
    /\ g_cached_session = loc[t].session /\ loc[t].session \in Live
    /\ Returned(u) /\ out[u].out_error = "kPhonemeIdsEmpty"

\* ------------------------------------------------------- fair scheduling
\* The steps of thread t's call once it has been made.
Proceed(t) ==
  \/ Phonemize(t)
  \/ EspeakInit(t)
  \/ EspeakVoice(t)
  \/ CheckPath(t)
  \/ Destroy(t)
  \/ SetPath(t)
  \/ CreateSession(t)
  \/ KeepSession(t)
  \/ CreateFailed(t)
  \/ Take(t)
  \/ InfEntry(t)
  \/ InfSidDetect(t)
  \/ InfRun(t)
  \/ Post(t)
  \/ Return(t)

\* The calls made by the hosts of the fair process: the two that can get
\* through the whole pipeline, on different models.
FairInputs ==
  { a \in Inputs :
      /\ a.model_path # ""
      /\ a.config_path \in {"full.json", "empty.json"}
      /\ a.text \in {"ab", "a c"} }
\* A host thread calls synthesize with one of them.
CallFair(t) == Call(t) /\ args'[t] \in FairInputs

NextFair ==
  \E t \in Threads :
    \/ CallFair(t)
    \/ Lock(t)
    \/ UseAfterFree(t)
    \/ Proceed(t)

\* The process under a fair scheduler: a thread that can run does run, the
\* external engines return, and a thread that waits for g_session_mutex gets
\* it if it is free again and again (piper_engine.cpp:231).
SpecFair ==
  /\ Init
  /\ [][NextFair]_vars
  /\ \A t \in Threads : WF_vars(Proceed(t)) /\ SF_vars(Lock(t))

\* The positions of a call inside the lock_guard block of lines 229-247.
CriticalSection ==
  {"check_path", "destroy", "set_path", "check_session", "create_failed", "take"}

\* C25: under fair scheduling, with external engines that return, every
\* synthesize call that has been made reaches its return, whatever the other
\* thread does.
C25_EveryCallTerminates ==
  \A t \in Threads : (pc[t] # "idle") ~> (pc[t] = "done")

\* The lock is held by a thread exactly while its call is inside the
\* lock_guard block.
LockHeldOnlyInside ==
  \A t \in Threads : g_session_mutex = t <=> pc[t] \in CriticalSection
\* Unless the process has died, a call in progress does not wait for ever.
TerminatesUnlessCrashed ==
  \A t \in Threads : (pc[t] # "idle") ~> (pc[t] = "done" \/ crashed)
====
